---- MODULE Spec2Model ----
(***************************************************************************)
(* MoonDog throttle quadrant firmware (src/src/main.cpp).                  *)
(*                                                                         *)
(* The firmware runs setup() once and then loop() for ever.  loop() calls  *)
(* readButtons(), readAxes(), printAxisDebug() and delay(100) in that      *)
(* order; each of them is one action below.  analogRead and digitalRead    *)
(* are the inputs: each action takes the values its reads return.          *)
(*                                                                         *)
(* accumulatedTrim is a float in the source.  Every value it takes is a    *)
(* multiple of 0.5 below 2048, which a 32-bit float holds exactly, so the  *)
(* model stores it as an integer count of halves (HALF units per 1.0).     *)
(***************************************************************************)
EXTENDS Integers, Sequences, FiniteSets, TLC

\* ---------------------------------------------------------------- bounds
\* loop() iterations explored by Spec
MaxCycles == 5
\* button level patterns readButtons can see in Spec
NumPatterns == 3
\* positions the operated lever can take in Spec: the first NumRawValues of RawTable
NumRawValues == 4
\* times the operated lever changes position after setup() in Spec
MaxMoves == 1
\* TrimSpec, full-travel run: loop() iterations, lever positions (the first
\* NumSweepLevels of SweepTable) and changes of position after setup()
MaxTrimCycles == 8
NumSweepLevels == 2
MaxSweepMoves == 2
\* TrimSpec, fine-adjustment run: loop() iterations, lever positions (the first
\* NumFineLevels of FineTable) and changes of position after setup()
MaxFineCycles == 3
NumFineLevels == 3
MaxFineMoves == 3
\* mapped values fed to applyDeadband in DeadbandSpec are 10 .. 10 + DbSpan
DbSpan == 2
\* applyDeadband calls explored by DeadbandSpec
MaxDbCalls == 4
\* raw samples fed to the dynamic bounds in DynamicSpec: the first NumDynValues of DynTable
NumDynValues == 4
\* raw samples processed per run of DynamicSpec, the first one included
MaxDynSamples == 4

\* ------------------------------------------------------ program constants
NUM_AXES == 7
filterWindowSize == 10
TRIM_AXIS_INDEX == 2
\* axes 0..LOOP_AXES-1 are the ones readAxes and printAxisDebug iterate over
LOOP_AXES == 6
\* pins per MCP23017 expander
NUM_PINS == 16
ADC_MAX == 1023
OUT_MAX == 1023
\* halves per unit of accumulatedTrim; TRIM_INCREMENT_SCALE = 0.5f is one half
HALF == 2
TRIM_START == 512

Axes == 0 .. NUM_AXES - 1
LoopAxes == 0 .. LOOP_AXES - 1
Slots == 0 .. filterWindowSize - 1
Buttons == 0 .. 2 * NUM_PINS - 1

AXIS_RAW_MIN == [a \in Axes |-> 196]
AXIS_RAW_MAX == [a \in Axes |-> 1023]
DEADZONE_THRESHOLDS == [a \in Axes |-> IF a \in {0, 1} THEN 1 ELSE 0]

\* ---------------------------------------------------------------- helpers
\* C integer division truncates toward zero (b > 0)
TruncDiv(a, b) == IF a >= 0 THEN a \div b ELSE -((-a) \div b)

\* the target's int is 16 bits wide, two's complement
Int16(x) == ((x + 32768) % 65536) - 32768

abs(x) == IF x < 0 THEN -x ELSE x

constrain(x, lo, hi) == IF x < lo THEN lo ELSE IF x > hi THEN hi ELSE x

\* Arduino map(): long arithmetic, truncating division, no clamping
map(x, in_min, in_max, out_min, out_max) ==
    TruncDiv((x - in_min) * (out_max - out_min), in_max - in_min) + out_min

RECURSIVE SumSeq(_)
SumSeq(s) == IF s = << >> THEN 0 ELSE Head(s) + SumSeq(Tail(s))

RECURSIVE SumSlots(_, _)
SumSlots(buf, n) == IF n = 0 THEN 0 ELSE buf[n - 1] + SumSlots(buf, n - 1)

\* ------------------------------------------------------------------ state
VARIABLES
    axisBuffers,       \* [axis -> [slot -> int]]
    axisSums,          \* [axis -> int]
    axisIndices,       \* [axis -> slot]
    lastStableOutput,  \* [axis -> int]
    accumulatedTrim,   \* halves
    lastTrimAvg,       \* float holding an integer
    Joystick,          \* axis values last handed to the HID sink
    buttons,           \* button states last handed to the HID sink
    pc,                \* the call loop() makes next
    cycle,             \* loop() iterations completed
    rawOut,            \* [axis -> rawOut of the last getSmoothedAxis call]
    averageOut,        \* [axis -> averageOut of the last getSmoothedAxis call]
    mapped,            \* [axis -> value returned by the last getSmoothedAxis call]
    stable,            \* [axis -> value returned by the last applyDeadband call]
    operated,          \* environment: the control the pilot moves in this run
    initVal,           \* history: [axis -> reading setup() primed the axis with]
    steady,            \* history: [axis -> every reading since setup equals initVal]
    reads,             \* history: [axis -> getSmoothedAxis calls so far]
    trimDeltas,        \* history: deltas of the trim updates so far
    trimPositions,     \* history: accumulatedTrim after each trim update
    trimClamped,       \* history: some trim update was cut by constrain
    dbAxis,            \* DeadbandSpec: the axis applyDeadband is called for
    dbStart,           \* DeadbandSpec: lastStableOutput[dbAxis] before the calls
    dbIn,              \* DeadbandSpec: the mapped values passed in
    dbOut,             \* DeadbandSpec: the values returned
    pins,              \* history: the 32 pin levels the last readButtons read
    sumAfterSub,       \* history: [axis -> axisSums between lines 138 and 140 of the last call]
    calMin,            \* dynamic calibration: learned lower bound
    calMax,            \* dynamic calibration: learned upper bound
    calSeen,           \* dynamic calibration: the raw samples processed so far
    moves              \* environment: changes of position of the operated lever so far

vars == << axisBuffers, axisSums, axisIndices, lastStableOutput, accumulatedTrim,
           lastTrimAvg, Joystick, buttons, pc, cycle, rawOut, averageOut, mapped,
           stable, operated, initVal, steady, reads, trimDeltas, trimPositions,
           trimClamped, dbAxis, dbStart, dbIn, dbOut, pins, sumAfterSub, calMin,
           calMax, calSeen, moves >>

\* the state of the dynamic calibration policy
dynamic == << calMin, calMax, calSeen >>

\* the state the claims call control state
control == << axisBuffers, axisSums, axisIndices, lastStableOutput, lastTrimAvg,
              accumulatedTrim >>

\* ------------------------------------------------------------ environment
\* analogRead returns any of 0..1023 for each lever at each call.  A run of
\* the model explores a bounded part of that: the pilot operates one control
\* per run, one of the levers 0..6 or the button panel (the axes share no
\* state, so a lever's pipeline behaves the same whatever the others read).
\* The operated lever is found at one of a bounded set of positions, keeps its
\* position from one analogRead to the next unless the pilot moves it, and is
\* moved a bounded number of times; the other levers rest at RestLevel, and
\* the buttons stay released unless the panel is the operated control.
BUTTON_PANEL == NUM_AXES
Controls == Axes \cup {BUTTON_PANEL}
RestLevel == 500

\* the first n entries of a table of lever positions
Levels(table, n) == {table[k] : k \in 1 .. n}

\* the ends of the ADC range, the top with one count of jitter, and
\* positions inside the range
RawTable == << 0, 1023, 700, 1022, 512, 196 >>
RawValues == Levels(RawTable, NumRawValues)

\* the position the operated lever was last read at
LeverAt ==
    IF operated \in LoopAxes /\ reads[operated] > 0
    THEN rawOut[operated]
    ELSE IF operated \in Axes THEN initVal[operated] ELSE RestLevel

\* the positions the operated lever can be read at next: any of `levels` in
\* setup() and while the pilot may still move it, its last position otherwise
Positions(levels, maxMoves) ==
    IF pc = "setup" \/ moves < maxMoves THEN levels ELSE {LeverAt}

\* the readings one pass over `axes` returns with the operated lever at one of
\* `positions`
ReadingsAt(axes, positions) ==
    {[a \in axes |-> IF a = operated THEN v ELSE RestLevel] : v \in positions}

\* the readings one pass over `axes` can return in Spec
Readings(axes) == ReadingsAt(axes, Positions(RawValues, MaxMoves))

\* electrical levels of the 32 expander pins (TRUE = high = released):
\* pattern 0 is all released, pattern k > 0 pulls low every pin p with p % k = 0
PinPattern(k) == [p \in Buttons |-> ~(k > 0 /\ p % k = 0)]
PinLevels ==
    IF operated = BUTTON_PANEL
    THEN {PinPattern(k) : k \in 0 .. NumPatterns}
    ELSE {PinPattern(0)}

\* -------------------------------------------------------------- operations
\* applyDeadband with > in place of >=
applyDeadband_strict(last, axisIndex, currentMapped) ==
    LET delta == abs(currentMapped - last)
    IN  IF delta > DEADZONE_THRESHOLDS[axisIndex] THEN currentMapped ELSE last

\* applyDeadband with the comparison inverted
applyDeadband_inverted(last, axisIndex, currentMapped) ==
    LET delta == abs(currentMapped - last)
    IN  IF delta <= DEADZONE_THRESHOLDS[axisIndex] THEN currentMapped ELSE last

\* applyDeadband (lines 74-82): the value stored in lastStableOutput[axisIndex]
\* after the call, which is also the value the call returns
applyDeadband(last, axisIndex, currentMapped) ==
    LET delta == abs(currentMapped - last)
    IN  IF delta >= DEADZONE_THRESHOLDS[axisIndex] THEN currentMapped ELSE last

\* getSmoothedAxis without the subtraction of the slot it overwrites
getSmoothedAxis_noSubtract(buf, sum, idx, axisIndex, raw) ==
    LET newSum == Int16(sum + raw)
        avg    == TruncDiv(newSum, filterWindowSize)
        m      == map(avg, AXIS_RAW_MIN[axisIndex], AXIS_RAW_MAX[axisIndex], 0, OUT_MAX)
    IN  [ buffer     |-> [buf EXCEPT ![idx] = raw],
          afterSub   |-> sum,
          sum        |-> newSum,
          index      |-> (idx + 1) % filterWindowSize,
          rawOut     |-> raw,
          averageOut |-> avg,
          ret        |-> constrain(m, 0, OUT_MAX) ]

\* getSmoothedAxis returning map()'s result without constrain
getSmoothedAxis_noConstrain(buf, sum, idx, axisIndex, raw) ==
    LET afterSub == Int16(sum - buf[idx])
        newSum   == Int16(afterSub + raw)
        avg      == TruncDiv(newSum, filterWindowSize)
        m        == map(avg, AXIS_RAW_MIN[axisIndex], AXIS_RAW_MAX[axisIndex], 0, OUT_MAX)
    IN  [ buffer     |-> [buf EXCEPT ![idx] = raw],
          afterSub   |-> afterSub,
          sum        |-> newSum,
          index      |-> (idx + 1) % filterWindowSize,
          rawOut     |-> raw,
          averageOut |-> avg,
          ret        |-> m ]

\* getSmoothedAxis dividing the running sum by W - 1
getSmoothedAxis_divisor(buf, sum, idx, axisIndex, raw) ==
    LET afterSub == Int16(sum - buf[idx])
        newSum   == Int16(afterSub + raw)
        avg      == TruncDiv(newSum, filterWindowSize - 1)
        m        == map(avg, AXIS_RAW_MIN[axisIndex], AXIS_RAW_MAX[axisIndex], 0, OUT_MAX)
    IN  [ buffer     |-> [buf EXCEPT ![idx] = raw],
          afterSub   |-> afterSub,
          sum        |-> newSum,
          index      |-> (idx + 1) % filterWindowSize,
          rawOut     |-> raw,
          averageOut |-> avg,
          ret        |-> constrain(m, 0, OUT_MAX) ]

\* getSmoothedAxis mapping onto 0..1024 instead of 0..1023
getSmoothedAxis_range1024(buf, sum, idx, axisIndex, raw) ==
    LET afterSub == Int16(sum - buf[idx])
        newSum   == Int16(afterSub + raw)
        avg      == TruncDiv(newSum, filterWindowSize)
        m        == map(avg, AXIS_RAW_MIN[axisIndex], AXIS_RAW_MAX[axisIndex], 0, OUT_MAX + 1)
    IN  [ buffer     |-> [buf EXCEPT ![idx] = raw],
          afterSub   |-> afterSub,
          sum        |-> newSum,
          index      |-> (idx + 1) % filterWindowSize,
          rawOut     |-> raw,
          averageOut |-> avg,
          ret        |-> constrain(m, 0, OUT_MAX) ]

\* getSmoothedAxis subtracting the slot after the one it overwrites
getSmoothedAxis_wrongSlot(buf, sum, idx, axisIndex, raw) ==
    LET afterSub == Int16(sum - buf[(idx + 1) % filterWindowSize])
        newSum   == Int16(afterSub + raw)
        avg      == TruncDiv(newSum, filterWindowSize)
        m        == map(avg, AXIS_RAW_MIN[axisIndex], AXIS_RAW_MAX[axisIndex], 0, OUT_MAX)
    IN  [ buffer     |-> [buf EXCEPT ![idx] = raw],
          afterSub   |-> afterSub,
          sum        |-> newSum,
          index      |-> (idx + 1) % filterWindowSize,
          rawOut     |-> raw,
          averageOut |-> avg,
          ret        |-> constrain(m, 0, OUT_MAX) ]

\* getSmoothedAxis (lines 134-149) on one axis: buf, sum and idx are the
\* axis's buffer, running sum and cursor, raw is what analogRead returns
getSmoothedAxis(buf, sum, idx, axisIndex, raw) ==
    LET afterSub == Int16(sum - buf[idx])
        newSum   == Int16(afterSub + raw)
        avg      == TruncDiv(newSum, filterWindowSize)
        m        == map(avg, AXIS_RAW_MIN[axisIndex], AXIS_RAW_MAX[axisIndex], 0, OUT_MAX)
    IN  [ buffer     |-> [buf EXCEPT ![idx] = raw],
          afterSub   |-> afterSub,
          sum        |-> newSum,
          index      |-> (idx + 1) % filterWindowSize,
          rawOut     |-> raw,
          averageOut |-> avg,
          ret        |-> constrain(m, 0, OUT_MAX) ]

\* the trim branch without lastTrimAvg = avg
trimBlock_staleLast(acc, last, avg) ==
    LET delta   == avg - last
        sum     == acc + delta
        clamped == constrain(sum, 0, OUT_MAX * HALF)
    IN  [ delta |-> delta, last |-> last, acc |-> clamped, cut |-> clamped # sum,
          z |-> clamped \div HALF ]

\* the trim branch without constrain
trimBlock_noClamp(acc, last, avg) ==
    LET delta == avg - last
        sum   == acc + delta
    IN  [ delta |-> delta, last |-> avg, acc |-> sum, cut |-> FALSE,
          z |-> TruncDiv(sum, HALF) ]

\* the trim branch adding the whole delta instead of half of it
trimBlock_fullGain(acc, last, avg) ==
    LET delta   == avg - last
        sum     == acc + HALF * delta
        clamped == constrain(sum, 0, OUT_MAX * HALF)
    IN  [ delta |-> delta, last |-> avg, acc |-> clamped, cut |-> clamped # sum,
          z |-> clamped \div HALF ]

\* the trim branch handing round(accumulatedTrim) to the sink
trimBlock_round(acc, last, avg) ==
    LET delta   == avg - last
        sum     == acc + delta
        clamped == constrain(sum, 0, OUT_MAX * HALF)
    IN  [ delta |-> delta, last |-> avg, acc |-> clamped, cut |-> clamped # sum,
          z |-> (clamped + 1) \div HALF ]

\* the trim branch of readAxes (lines 164-168): acc in halves, last and avg
\* whole numbers; z is the value handed to Joystick.setZAxis
trimBlock(acc, last, avg) ==
    LET delta   == avg - last
        sum     == acc + delta              \* delta * 0.5f, in halves
        clamped == constrain(sum, 0, OUT_MAX * HALF)
    IN  [ delta   |-> delta,
          last    |-> avg,
          acc     |-> clamped,
          cut     |-> clamped # sum,
          z       |-> clamped \div HALF ]   \* (int) of a non-negative float

\* setup() adding the first reading to the running sum once, not once per slot
setupAxes_sumOnce(sums, r) ==
    LET newSums == [a \in Axes |-> Int16(sums[a] + r[a])]
    IN  [ axisBuffers      |-> [a \in Axes |-> [i \in Slots |-> r[a]]],
          axisSums         |-> newSums,
          lastStableOutput |-> [a \in Axes |->
                                   map(r[a], AXIS_RAW_MIN[a], AXIS_RAW_MAX[a], 0, OUT_MAX)],
          lastTrimAvg      |-> TruncDiv(newSums[TRIM_AXIS_INDEX], filterWindowSize) ]

\* setup() without line 116: lastTrimAvg keeps its initialiser 0
setupAxes_noTrimSeed(sums, r) ==
    LET newSums == [a \in Axes |-> Int16(sums[a] + filterWindowSize * r[a])]
    IN  [ axisBuffers      |-> [a \in Axes |-> [i \in Slots |-> r[a]]],
          axisSums         |-> newSums,
          lastStableOutput |-> [a \in Axes |->
                                   map(r[a], AXIS_RAW_MIN[a], AXIS_RAW_MAX[a], 0, OUT_MAX)],
          lastTrimAvg      |-> 0 ]

\* the axis loop of setup() (lines 106-116): sums are the running sums on
\* entry, r[a] is what analogRead returns for axis a
setupAxes(sums, r) ==
    LET newSums == [a \in Axes |-> Int16(sums[a] + filterWindowSize * r[a])]
    IN  [ axisBuffers      |-> [a \in Axes |-> [i \in Slots |-> r[a]]],
          axisSums         |-> newSums,
          lastStableOutput |-> [a \in Axes |->
                                   map(r[a], AXIS_RAW_MIN[a], AXIS_RAW_MAX[a], 0, OUT_MAX)],
          lastTrimAvg      |-> TruncDiv(newSums[TRIM_AXIS_INDEX], filterWindowSize) ]

\* readButtons reading both halves from the first expander
readButtonStates_sameExpander(mcp1, mcp2) ==
    [b \in Buttons |-> IF b < NUM_PINS THEN ~mcp1[b] ELSE ~mcp1[b - NUM_PINS]]

\* readButtons (lines 122-129): mcp1 and mcp2 are the pin levels read
readButtonStates(mcp1, mcp2) ==
    [b \in Buttons |-> IF b < NUM_PINS THEN ~mcp1[b] ELSE ~mcp2[b - NUM_PINS]]

\* ------------------------------------------------------------------- Init
ZeroAxes == [a \in Axes |-> 0]

\* the globals as their initialisers leave them, before setup() runs
Globals ==
    /\ axisBuffers = [a \in Axes |-> [i \in Slots |-> 0]]
    /\ axisSums = ZeroAxes
    /\ axisIndices = ZeroAxes
    /\ lastStableOutput = ZeroAxes
    /\ accumulatedTrim = TRIM_START * HALF
    /\ lastTrimAvg = 0
    /\ Joystick = [X |-> 0, Y |-> 0, Z |-> 0, Rx |-> 0, Ry |-> 0, Rz |-> 0]
    /\ buttons = [b \in Buttons |-> FALSE]

NoHistory ==
    /\ rawOut = ZeroAxes
    /\ averageOut = ZeroAxes
    /\ mapped = ZeroAxes
    /\ stable = ZeroAxes
    /\ steady = [a \in Axes |-> TRUE]
    /\ reads = ZeroAxes
    /\ trimDeltas = << >>
    /\ trimPositions = << >>
    /\ trimClamped = FALSE
    /\ dbIn = << >>
    /\ dbOut = << >>
    /\ pins = [b \in Buttons |-> TRUE]
    /\ sumAfterSub = ZeroAxes
    /\ moves = 0

\* no axis of main.cpp uses the dynamic calibration policy
DynamicIdle ==
    /\ calMin = 0
    /\ calMax = 0
    /\ calSeen = << >>

Init ==
    /\ Globals
    /\ NoHistory
    /\ DynamicIdle
    /\ initVal = ZeroAxes
    /\ pc = "setup"
    /\ cycle = 0
    /\ operated \in Controls
    /\ dbAxis = 0
    /\ dbStart = 0

\* ---------------------------------------------------------------- actions
Setup(r) ==
    /\ pc = "setup"
    /\ LET s == setupAxes(axisSums, r)
       IN  /\ axisBuffers' = s.axisBuffers
           /\ axisSums' = s.axisSums
           /\ lastStableOutput' = s.lastStableOutput
           /\ lastTrimAvg' = s.lastTrimAvg
    /\ initVal' = r
    /\ pc' = "readButtons"
    /\ UNCHANGED << axisIndices, accumulatedTrim, Joystick, buttons, cycle, rawOut,
                    averageOut, mapped, stable, operated, pins, sumAfterSub, dynamic, steady, reads, trimDeltas,
                    trimPositions, trimClamped, dbAxis, dbStart, dbIn, dbOut, moves >>

ReadButtons(levels) ==
    /\ pc = "readButtons"
    /\ buttons' = readButtonStates([i \in 0 .. NUM_PINS - 1 |-> levels[i]],
                                   [i \in 0 .. NUM_PINS - 1 |-> levels[i + NUM_PINS]])
    /\ pins' = levels
    /\ pc' = "readAxes"
    /\ UNCHANGED << axisBuffers, axisSums, axisIndices, lastStableOutput,
                    accumulatedTrim, lastTrimAvg, Joystick, cycle, rawOut, averageOut,
                    mapped, stable, operated, sumAfterSub, dynamic, initVal, steady, reads, trimDeltas,
                    trimPositions, trimClamped, dbAxis, dbStart, dbIn, dbOut, moves >>

\* what one pass of getSmoothedAxis over axes 0..5 leaves in the filter state
\* and in the history, given the per-axis results g
FilterUpdate(g, r) ==
    /\ axisBuffers' = [a \in Axes |-> IF a \in LoopAxes THEN g[a].buffer ELSE axisBuffers[a]]
    /\ axisSums' = [a \in Axes |-> IF a \in LoopAxes THEN g[a].sum ELSE axisSums[a]]
    /\ axisIndices' = [a \in Axes |-> IF a \in LoopAxes THEN g[a].index ELSE axisIndices[a]]
    /\ rawOut' = [a \in Axes |-> IF a \in LoopAxes THEN g[a].rawOut ELSE rawOut[a]]
    /\ averageOut' = [a \in Axes |-> IF a \in LoopAxes THEN g[a].averageOut ELSE averageOut[a]]
    /\ mapped' = [a \in Axes |-> IF a \in LoopAxes THEN g[a].ret ELSE mapped[a]]
    /\ reads' = [a \in Axes |-> IF a \in LoopAxes THEN reads[a] + 1 ELSE reads[a]]
    /\ sumAfterSub' = [a \in Axes |-> IF a \in LoopAxes THEN g[a].afterSub ELSE sumAfterSub[a]]
    /\ steady' = [a \in Axes |-> steady[a] /\ (a \in LoopAxes => r[a] = initVal[a])]
    /\ moves' = IF operated \in LoopAxes /\ r[operated] # LeverAt THEN moves + 1 ELSE moves

\* what the trim branch leaves in the trim state and in the history
TrimEffect(t) ==
    /\ lastTrimAvg' = t.last
    /\ accumulatedTrim' = t.acc
    /\ trimDeltas' = Append(trimDeltas, t.delta)
    /\ trimPositions' = Append(trimPositions, t.acc)
    /\ trimClamped' = (trimClamped \/ t.cut)

ReadAxes(r) ==
    /\ pc = "readAxes"
    /\ LET g == [a \in LoopAxes |->
                   getSmoothedAxis(axisBuffers[a], axisSums[a], axisIndices[a], a, r[a])]
           t == trimBlock(accumulatedTrim, lastTrimAvg, g[TRIM_AXIS_INDEX].averageOut)
           s == [a \in Axes |->
                   IF a \in LoopAxes \ {TRIM_AXIS_INDEX}
                   THEN applyDeadband(lastStableOutput[a], a, g[a].ret)
                   ELSE lastStableOutput[a]]
       IN  /\ FilterUpdate(g, r)
           /\ TrimEffect(t)
           /\ lastStableOutput' = s
           /\ stable' = [a \in Axes |->
                           IF a \in LoopAxes \ {TRIM_AXIS_INDEX} THEN s[a] ELSE stable[a]]
           /\ Joystick' = [X |-> s[0], Y |-> s[1], Z |-> t.z,
                           Rx |-> s[3], Ry |-> s[4], Rz |-> s[5]]
    /\ pc' = "printAxisDebug"
    /\ UNCHANGED << buttons, cycle, operated, pins, dynamic, initVal, dbAxis, dbStart, dbIn, dbOut >>

PrintAxisDebug(r) ==
    /\ pc = "printAxisDebug"
    /\ LET g == [a \in LoopAxes |->
                   getSmoothedAxis(axisBuffers[a], axisSums[a], axisIndices[a], a, r[a])]
           s == [a \in Axes |->
                   IF a \in LoopAxes
                   THEN applyDeadband(lastStableOutput[a], a, g[a].ret)
                   ELSE lastStableOutput[a]]
       IN  /\ FilterUpdate(g, r)
           /\ lastStableOutput' = s
           /\ stable' = [a \in Axes |-> IF a \in LoopAxes THEN s[a] ELSE stable[a]]
    /\ pc' = "delay"
    /\ UNCHANGED << accumulatedTrim, lastTrimAvg, Joystick, buttons, cycle, operated, pins, dynamic,
                    initVal, trimDeltas, trimPositions, trimClamped, dbAxis, dbStart,
                    dbIn, dbOut >>

Delay ==
    /\ pc = "delay"
    /\ pc' = "readButtons"
    /\ cycle' = cycle + 1
    /\ UNCHANGED << axisBuffers, axisSums, axisIndices, lastStableOutput,
                    accumulatedTrim, lastTrimAvg, Joystick, buttons, rawOut, averageOut,
                    mapped, stable, operated, pins, sumAfterSub, dynamic, initVal, steady, reads, trimDeltas,
                    trimPositions, trimClamped, dbAxis, dbStart, dbIn, dbOut, moves >>

\* loop() never returns; Spec follows it for MaxCycles iterations
Next ==
    \/ \E r \in Readings(Axes) : Setup(r)
    \/ cycle < MaxCycles /\ \E levels \in PinLevels : ReadButtons(levels)
    \/ \E r \in Readings(LoopAxes) : ReadAxes(r)
    \/ \E r \in Readings(LoopAxes) : PrintAxisDebug(r)
    \/ Delay

Spec == Init /\ [][Next]_vars

TypeOK ==
    /\ pc \in {"setup", "readButtons", "readAxes", "printAxisDebug", "delay"}
    /\ cycle \in Nat
    /\ moves \in Nat
    /\ \A a \in Axes : axisIndices[a] \in Slots

\* ------------------------------------------------------- calibration sweep
\* SweepSpec runs setup() and the first readButtons() and readAxes() with
\* every lever held still: the even axes at v and the odd axes at v + 1, for
\* every v the ADC can return.  The smoothed value of a still lever is its
\* reading, so the pass maps every value of 0..1023 next to its successor.
SweepReading(v) ==
    [a \in Axes |-> IF a % 2 = 0 \/ v = ADC_MAX THEN v ELSE v + 1]

InitSweep == Init /\ operated = BUTTON_PANEL

NextSweep ==
    \/ \E v \in 0 .. ADC_MAX : Setup(SweepReading(v))
    \/ ReadButtons(PinPattern(0))
    \/ ReadAxes([a \in LoopAxes |-> initVal[a]])

SweepSpec == InitSweep /\ [][NextSweep]_vars

\* ------------------------------------------------ dynamic calibration bounds
\* main.cpp calibrates every axis with the fixed bounds AXIS_RAW_MIN and
\* AXIS_RAW_MAX.  The dynamic policy is modelled from its description: the
\* bounds start at the first raw sample observed and are widened, never
\* narrowed, whenever a raw sample falls outside them.
DynTable == << 300, 100, 900, 500, 0, 1023 >>
DynValues == {DynTable[k] : k \in 1 .. NumDynValues}

\* widening that moves the lower bound to every sample above it
widenBounds_narrowing(lo, hi, v) ==
    [ min |-> IF v > lo THEN v ELSE lo,
      max |-> IF v > hi THEN v ELSE hi ]

widenBounds(lo, hi, v) ==
    [ min |-> IF v < lo THEN v ELSE lo,
      max |-> IF v > hi THEN v ELSE hi ]

InitDynamic ==
    /\ Globals
    /\ NoHistory
    /\ initVal = ZeroAxes
    /\ pc = "setup"
    /\ cycle = 0
    /\ operated = BUTTON_PANEL
    /\ dbAxis = 0
    /\ dbStart = 0
    /\ \E v0 \in DynValues :
           /\ calMin = v0
           /\ calMax = v0
           /\ calSeen = << v0 >>

ObserveSample(v) ==
    /\ Len(calSeen) < MaxDynSamples
    /\ LET b == widenBounds(calMin, calMax, v)
       IN  /\ calMin' = b.min
           /\ calMax' = b.max
    /\ calSeen' = Append(calSeen, v)
    /\ UNCHANGED << axisBuffers, axisSums, axisIndices, lastStableOutput, accumulatedTrim,
                    lastTrimAvg, Joystick, buttons, pc, cycle, rawOut, averageOut, mapped,
                    stable, operated, initVal, steady, reads, trimDeltas, trimPositions,
                    trimClamped, dbAxis, dbStart, dbIn, dbOut, pins, sumAfterSub, moves >>

NextDynamic == \E v \in DynValues : ObserveSample(v)

DynamicSpec == InitDynamic /\ [][NextDynamic]_vars

\* ------------------------------------------------ the trim lever operated
\* TrimSpec is the program with the trim lever as the operated control, in
\* one of two kinds of run, told apart by where setup() finds the lever.
\* Full travel: the lever is moved between the ends of its range over
\* MaxTrimCycles iterations, long enough for the smoothed value to travel from
\* 0 to 1023 (ten pushes) and back off.  Fine adjustment: the lever is moved
\* by small amounts about a detent over MaxFineCycles iterations.
SweepTable == << 0, 1023, 1022, 1 >>
SweepLevels == Levels(SweepTable, NumSweepLevels)
FineTable == << 500, 520, 495, 510, 490 >>
FineLevels == Levels(FineTable, NumFineLevels)

FineRun == initVal[TRIM_AXIS_INDEX] \in FineLevels

TrimReadings(axes) ==
    ReadingsAt(axes,
               IF pc = "setup" THEN SweepLevels \cup FineLevels
               ELSE IF FineRun THEN Positions(FineLevels, MaxFineMoves)
               ELSE Positions(SweepLevels, MaxSweepMoves))

TrimCycles == IF FineRun THEN MaxFineCycles ELSE MaxTrimCycles

InitTrim == Init /\ operated = TRIM_AXIS_INDEX

NextTrim ==
    \/ \E r \in TrimReadings(Axes) : Setup(r)
    \/ cycle < TrimCycles /\ ReadButtons(PinPattern(0))
    \/ \E r \in TrimReadings(LoopAxes) : ReadAxes(r)
    \/ \E r \in TrimReadings(LoopAxes) : PrintAxisDebug(r)
    \/ Delay

TrimSpec == InitTrim /\ [][NextTrim]_vars

\* ----------------------------------------------- applyDeadband on its own
\* DeadbandSpec calls applyDeadband for one axis with mapped values drawn from
\* DbValues, starting from a stored value drawn from DbValues.
DbValues == {10 + k : k \in 0 .. DbSpan}

InitDeadband ==
    \E a \in LoopAxes, s0 \in DbValues :
        /\ axisBuffers = [x \in Axes |-> [i \in Slots |-> 0]]
        /\ axisSums = ZeroAxes
        /\ axisIndices = ZeroAxes
        /\ lastStableOutput = [ZeroAxes EXCEPT ![a] = s0]
        /\ accumulatedTrim = TRIM_START * HALF
        /\ lastTrimAvg = 0
        /\ Joystick = [X |-> 0, Y |-> 0, Z |-> 0, Rx |-> 0, Ry |-> 0, Rz |-> 0]
        /\ buttons = [b \in Buttons |-> FALSE]
        /\ NoHistory
        /\ DynamicIdle
        /\ initVal = ZeroAxes
        /\ pc = "readAxes"
        /\ cycle = 0
        /\ operated = BUTTON_PANEL
        /\ dbAxis = a
        /\ dbStart = s0

ApplyDeadbandCall(m) ==
    /\ Len(dbIn) < MaxDbCalls
    /\ LET out == applyDeadband(lastStableOutput[dbAxis], dbAxis, m)
       IN  /\ lastStableOutput' = [lastStableOutput EXCEPT ![dbAxis] = out]
           /\ stable' = [stable EXCEPT ![dbAxis] = out]
           /\ dbOut' = Append(dbOut, out)
    /\ mapped' = [mapped EXCEPT ![dbAxis] = m]
    /\ dbIn' = Append(dbIn, m)
    /\ UNCHANGED << axisBuffers, axisSums, axisIndices, accumulatedTrim, lastTrimAvg,
                    Joystick, buttons, pc, cycle, rawOut, averageOut, operated, pins, sumAfterSub, dynamic, initVal,
                    steady, reads, trimDeltas, trimPositions, trimClamped, dbAxis,
                    dbStart, moves >>

NextDeadband == \E m \in DbValues : ApplyDeadbandCall(m)

DeadbandSpec == InitDeadband /\ [][NextDeadband]_vars

\* ================================================================== claims
Last(s) == s[Len(s)]
TrimMax == OUT_MAX * HALF

\* C1: for every axis the running sum equals the sum of the W buffer entries,
\* the cursor is in 0..W-1, and the cursor has advanced by exactly 1 modulo W
\* per push (it equals the number of pushes modulo W).
C1_SumAndCursor ==
    \A a \in Axes :
        /\ axisSums[a] = SumSlots(axisBuffers[a], filterWindowSize)
        /\ axisIndices[a] \in Slots
        /\ axisIndices[a] = reads[a] % filterWindowSize

\* a full turn of the cursor over a buffer that holds different samples
C1_Witness ==
    \E a \in LoopAxes :
        /\ reads[a] = filterWindowSize
        /\ axisIndices[a] = 0
        /\ \E i, j \in Slots : axisBuffers[a][i] # axisBuffers[a][j]

\* C2: while every reading of an axis since setup() equals the reading v it
\* was primed with, every smoothed value getSmoothedAxis computes for it is v,
\* from the first call on.
C2_SteadyState ==
    \A a \in Axes :
        (steady[a] /\ reads[a] > 0) => averageOut[a] = initVal[a]

\* v = 500 held for W calls on a resting lever, v = 1023 on the moved one
C2_Witness ==
    /\ \E a \in LoopAxes :
           steady[a] /\ reads[a] = filterWindowSize /\ initVal[a] = RestLevel
                     /\ averageOut[a] = RestLevel
    /\ \E a \in LoopAxes :
           steady[a] /\ reads[a] = filterWindowSize /\ initVal[a] = ADC_MAX
                     /\ averageOut[a] = ADC_MAX

\* C3: every axis value handed to the sink is in 0..1023, in the first cycle
\* and in every later one; a smoothed value below the calibration minimum is
\* clamped to 0.
C3_SinkRange ==
    /\ \A k \in DOMAIN Joystick : Joystick[k] \in 0 .. OUT_MAX
    /\ \A a \in LoopAxes :
           (reads[a] > 0 /\ averageOut[a] < AXIS_RAW_MIN[a]) => mapped[a] = 0
    /\ (reads[0] > 0 /\ averageOut[0] < AXIS_RAW_MIN[0] /\ pc = "printAxisDebug")
           => Joystick.X = 0

\* first cycle, lever 0 primed below the calibration minimum: setup() stored a
\* negative value, the sink got 0
C3_Witness ==
    /\ pc = "printAxisDebug"
    /\ cycle = 0
    /\ initVal[0] = 0
    /\ averageOut[0] < AXIS_RAW_MIN[0]
    /\ Joystick.X = 0
    /\ Joystick.Rx > 0

\* C4: printAxisDebug leaves the control state unchanged.
C4_DebugObservational ==
    [][pc = "printAxisDebug" => UNCHANGED control]_vars

\* C5: each loop() iteration pushes exactly one sample into every axis's
\* filter, so at the top of the loop every axis has had one push per completed
\* iteration and its cursor is the iteration count modulo W.
C5_OnePushPerCycle ==
    pc = "readButtons" =>
        \A a \in Axes :
            /\ reads[a] = cycle
            /\ axisIndices[a] = cycle % filterWindowSize

\* C6 as stated: a call of applyDeadband with mapped value m and threshold T
\* keeps the stored value when |m - stored| < T, stores m when it is >= T,
\* and returns the stored value; T = 0 passes every value through; and with
\* T = 1, from stored value 10, inputs 10,10,11,10 return 10,10,11,11.
DeadbandRule ==
    LET m   == Last(dbIn')
        T   == DEADZONE_THRESHOLDS[dbAxis]
        old == lastStableOutput[dbAxis]
        new == lastStableOutput'[dbAxis]
    IN  /\ abs(m - old) < T => new = old
        /\ abs(m - old) >= T => new = m
        /\ Last(dbOut') = new
        /\ T = 0 => Last(dbOut') = m

ScenarioC == DEADZONE_THRESHOLDS[dbAxis] = 1 /\ dbStart = 10

C6_DeadbandOriginal ==
    [][dbIn' # dbIn =>
        /\ DeadbandRule
        /\ (ScenarioC /\ dbIn' = << 10, 10, 11, 10 >>) => dbOut' = << 10, 10, 11, 11 >>]_vars

\* C6 amended: the same rule; with T = 1, from stored value 10, inputs
\* 10,10,11,10 return 10,10,11,10 (the step back from 11 to 10 is a change of
\* 1 >= T and is accepted like the step up).
C6_Deadband ==
    [][dbIn' # dbIn =>
        /\ DeadbandRule
        /\ (ScenarioC /\ dbIn' = << 10, 10, 11, 10 >>) => dbOut' = << 10, 10, 11, 10 >>]_vars

C6_Witness ==
    /\ ScenarioC
    /\ dbIn = << 10, 10, 11, 10 >>
    /\ dbOut = << 10, 10, 11, 10 >>

\* C7: a trim update takes delta = smoothed - lastTrimAvg, stores the smoothed
\* value in lastTrimAvg and sets accumulatedTrim to
\* clamp(accumulatedTrim + 0.5 * delta, 0, 1023); at an edge a delta pointing
\* outward leaves the position at the edge and a delta d pointing inward
\* moves it to edge + 0.5 * d; from 512 the deltas +2,-1,+4 give 513, 512.5,
\* 514.5.
C7_TrimUpdate ==
    [][trimDeltas' # trimDeltas =>
        LET cur == averageOut'[TRIM_AXIS_INDEX]
            d   == cur - lastTrimAvg
        IN  /\ Last(trimDeltas') = d
            /\ lastTrimAvg' = cur
            /\ accumulatedTrim' = constrain(accumulatedTrim + d, 0, TrimMax)
            /\ (accumulatedTrim = TrimMax /\ d >= 0) => accumulatedTrim' = TrimMax
            /\ (accumulatedTrim = TrimMax /\ d < 0) => accumulatedTrim' = TrimMax + d
            /\ (accumulatedTrim = 0 /\ d <= 0) => accumulatedTrim' = 0
            /\ (accumulatedTrim = 0 /\ d > 0) => accumulatedTrim' = d
            /\ trimDeltas' = << 2, -1, 4 >> =>
                   trimPositions' = << 513 * HALF, 512 * HALF + 1, 514 * HALF + 1 >>]_vars

C7_Witness ==
    /\ trimDeltas = << 2, -1, 4 >>
    /\ trimPositions = << 513 * HALF, 512 * HALF + 1, 514 * HALF + 1 >>

\* the edge case of C7 happens: an update is cut at the upper edge, the next
\* one leaves the position there (the smoothed value is at its maximum, so
\* no delta points further out) and the one after moves it back inward
C7_EdgeReached ==
    /\ Len(trimDeltas) >= 3
    /\ \E k \in 1 .. Len(trimDeltas) - 2 :
           /\ trimPositions[k] = TrimMax
           /\ trimDeltas[k + 1] = 0
           /\ trimPositions[k + 1] = TrimMax
           /\ trimDeltas[k + 2] < 0
           /\ trimPositions[k + 2] = TrimMax + trimDeltas[k + 2]

\* C8: accumulatedTrim is within 0..1023 in every state.
C8_TrimInRange == accumulatedTrim \in 0 .. TrimMax

\* the clamp has engaged
C8_Witness == trimClamped /\ accumulatedTrim = TrimMax

\* C9 as stated: after deltas d_1..d_n, accumulatedTrim is
\* clamp(512 + 0.5 * (d_1 + ... + d_n), 0, 1023).
C9_IntegrationLaw ==
    accumulatedTrim = constrain(TRIM_START * HALF + SumSeq(trimDeltas), 0, TrimMax)

\* C9 amended: the law holds as long as no update has been cut by the clamp;
\* once an update has been cut the excess (0.5) is lost for good and
\* accumulatedTrim is 512 + 0.5 * (d_1 + ... + d_n) - 0.5.
C9_IntegrationLawAmended ==
    /\ ~trimClamped =>
           accumulatedTrim = constrain(TRIM_START * HALF + SumSeq(trimDeltas), 0, TrimMax)
    /\ trimClamped =>
           accumulatedTrim = TRIM_START * HALF + SumSeq(trimDeltas) - 1

\* saturated, then reversed: half a unit below the closed form
C9_Witness ==
    /\ trimClamped
    /\ accumulatedTrim < TrimMax
    /\ accumulatedTrim # constrain(TRIM_START * HALF + SumSeq(trimDeltas), 0, TrimMax)

\* C10 as stated: the trim value handed to the sink is accumulatedTrim
\* rounded to the nearest integer (halves up).
C10_TrimEmitRounded ==
    trimDeltas # << >> => Joystick.Z = (accumulatedTrim + 1) \div HALF

\* C10 amended: the trim value handed to the sink is accumulatedTrim
\* truncated to an integer: 512.5 is emitted as 512.
C10_TrimEmitTruncated ==
    trimDeltas # << >> =>
        /\ Joystick.Z * HALF <= accumulatedTrim
        /\ accumulatedTrim < (Joystick.Z + 1) * HALF

\* a position with a half
C10_Witness ==
    /\ trimDeltas # << >>
    /\ accumulatedTrim % HALF = 1
    /\ Joystick.Z * HALF = accumulatedTrim - 1

\* C11: after every push the smoothed value lies between the smallest and
\* the largest sample held in the axis's window.
MinSlot(buf) == CHOOSE x \in {buf[i] : i \in Slots} : \A i \in Slots : x <= buf[i]
MaxSlot(buf) == CHOOSE x \in {buf[i] : i \in Slots} : \A i \in Slots : x >= buf[i]

C11_FilterBound ==
    \A a \in LoopAxes :
        reads[a] > 0 =>
            /\ MinSlot(axisBuffers[a]) <= averageOut[a]
            /\ averageOut[a] <= MaxSlot(axisBuffers[a])

\* a window holding different samples, the smoothed value strictly inside
C11_Witness ==
    \E a \in LoopAxes :
        /\ reads[a] > 0
        /\ MinSlot(axisBuffers[a]) < averageOut[a]
        /\ averageOut[a] < MaxSlot(axisBuffers[a])

\* C12: the fixed calibration maps a smoothed value v of 0..1023 to
\* clamp((v - 196) * 1023 / 827, 0, 1023) with truncating division: 196 (and
\* anything below) maps to 0, 1023 maps to 1023, and a larger smoothed value
\* never maps to a smaller result.
FixedCalibration(v) == IF v < 196 THEN 0 ELSE ((v - 196) * 1023) \div 827

C12_FixedCalibration ==
    /\ \A a \in LoopAxes :
           reads[a] > 0 =>
               /\ mapped[a] = FixedCalibration(averageOut[a])
               /\ mapped[a] \in 0 .. 1023
               /\ averageOut[a] = 196 => mapped[a] = 0
               /\ averageOut[a] = 1023 => mapped[a] = 1023
    /\ \A a, b \in LoopAxes :
           (reads[a] > 0 /\ reads[b] > 0 /\ averageOut[a] <= averageOut[b])
               => mapped[a] <= mapped[b]

\* the top of the range: 1022 maps to 1021 and 1023 to 1023
C12_Witness ==
    /\ reads[0] > 0 /\ averageOut[0] = 1022 /\ mapped[0] = 1021
    /\ reads[1] > 0 /\ averageOut[1] = 1023 /\ mapped[1] = 1023

\* the bottom of the range: 196 maps to 0 and 197 to 1
C12_BottomReached ==
    /\ reads[0] > 0 /\ averageOut[0] = 196 /\ mapped[0] = 0
    /\ reads[1] > 0 /\ averageOut[1] = 197 /\ mapped[1] = 1

\* C13: a push of raw sample r over buffer entry e moves the smoothed value
\* by at most ceil(|r - e| / W).
C13_PushStep ==
    [][\A a \in LoopAxes :
          reads'[a] # reads[a] =>
              LET e    == axisBuffers[a][axisIndices[a]]
                  r    == rawOut'[a]
                  prev == IF reads[a] > 0 THEN averageOut[a] ELSE initVal[a]
                  d    == abs(r - e)
              IN  abs(averageOut'[a] - prev)
                      <= (d + filterWindowSize - 1) \div filterWindowSize]_vars

\* 1023 pushed over the last 0 of a window: the smoothed value moves by
\* 103 = ceil(1023 / 10), from 920 to 1023
C13_Witness ==
    \E a \in LoopAxes :
        /\ initVal[a] = 0
        /\ reads[a] = filterWindowSize
        /\ rawOut[a] = ADC_MAX
        /\ sumAfterSub[a] = 9 * ADC_MAX
        /\ averageOut[a] = ADC_MAX

\* C14: readButtons reports button i as pressed exactly when pin i of the
\* first expander is low and button i + 16 exactly when pin i of the second
\* expander is low, and leaves the analog pipeline's state unchanged.
C14_Buttons ==
    [][pc = "readButtons" =>
          /\ \A i \in 0 .. NUM_PINS - 1 :
                 /\ buttons'[i] = ~pins'[i]
                 /\ buttons'[i + NUM_PINS] = ~pins'[i + NUM_PINS]
          /\ UNCHANGED << axisBuffers, axisSums, axisIndices, lastStableOutput,
                          accumulatedTrim, lastTrimAvg >>]_vars

\* pins 0 and 18 low, pin 16 high: buttons 0 and 18 pressed, button 16 not
C14_Witness ==
    /\ pc = "readAxes"
    /\ ~pins[0] /\ buttons[0]
    /\ pins[16] /\ ~buttons[16]
    /\ ~pins[18] /\ buttons[18]

\* C15: under the dynamic policy the calibration minimum never increases and
\* the maximum never decreases, after a raw sample v has been processed
\* min <= v <= max, and starting at 300 the samples 100 and 900 leave
\* min = 100 and max = 900.
C15_DynamicBounds ==
    [][calSeen' # calSeen =>
          LET v == calSeen'[Len(calSeen')]
          IN  /\ calMin' <= calMin
              /\ calMax' >= calMax
              /\ calMin' <= v
              /\ v <= calMax'
              /\ calSeen' = << 300, 100, 900 >> => (calMin' = 100 /\ calMax' = 900)]_vars

C15_Witness ==
    /\ calSeen = << 300, 100, 900 >>
    /\ calMin = 100
    /\ calMax = 900

\* C16: with thresholds 0 and 1 applyDeadband returns the mapped value it
\* is given: after a call for an axis the returned value and
\* lastStableOutput[axis] are that mapped value, and every ordinary axis value
\* readAxes hands to the sink is the value mapped in that cycle.  (The trim
\* axis is passed to applyDeadband by printAxisDebug only.)
OrdinaryAxes == LoopAxes \ {TRIM_AXIS_INDEX}

C16_DeadbandTransparent ==
    /\ \A a \in OrdinaryAxes :
           reads[a] > 0 => (stable[a] = mapped[a] /\ lastStableOutput[a] = mapped[a])
    /\ (reads[TRIM_AXIS_INDEX] > 0 /\ pc \in {"delay", "readButtons"}) =>
           /\ stable[TRIM_AXIS_INDEX] = mapped[TRIM_AXIS_INDEX]
           /\ lastStableOutput[TRIM_AXIS_INDEX] = mapped[TRIM_AXIS_INDEX]
    /\ pc = "printAxisDebug" =>
           /\ Joystick.X = mapped[0]
           /\ Joystick.Y = mapped[1]
           /\ Joystick.Rx = mapped[3]
           /\ Joystick.Ry = mapped[4]
           /\ Joystick.Rz = mapped[5]

\* throttle L (T = 1) primed at 0 and moved to 1023: in the second cycle the
\* smoothed value 306 maps to 136, which is stored and sent
C16_Witness ==
    /\ pc = "printAxisDebug"
    /\ initVal[0] = 0
    /\ reads[0] = 3
    /\ averageOut[0] = 306
    /\ mapped[0] = 136
    /\ lastStableOutput[0] = 136
    /\ Joystick.X = 136

\* DeadbandSpec: every call returns the value passed in, steps of exactly 1 included
C16_UnitTransparent == dbOut = dbIn

\* C17: accumulatedTrim is 512 + 0.5 * (lastTrimAvg - a0) or 0.5 less, a0
\* being the trim axis's smoothed value at setup; it is never below 0.5, so
\* the lower clamp never engages; the upper clamp engages only when a0 = 0,
\* at an update whose smoothed value is 1023.
TrimByPosition == TRIM_START * HALF + (lastTrimAvg - initVal[TRIM_AXIS_INDEX])

C17_TrimTelescopes ==
    /\ accumulatedTrim \in {TrimByPosition, TrimByPosition - 1}
    /\ accumulatedTrim >= 1
    /\ ~trimClamped => accumulatedTrim = TrimByPosition
    /\ trimClamped =>
           /\ initVal[TRIM_AXIS_INDEX] = 0
           /\ \E k \in 1 .. Len(trimDeltas) :
                  /\ trimPositions[k] = TrimMax
                  /\ SumSeq(SubSeq(trimDeltas, 1, k)) = ADC_MAX

\* after saturation and a reversal: half a unit below the position law
C17_Witness ==
    /\ trimClamped
    /\ lastTrimAvg < ADC_MAX
    /\ accumulatedTrim = TrimByPosition - 1

\* C18: from the end of setup() on, lastStableOutput[a] is within 0..1023 for
\* every axis a.
C18_StableInRange ==
    pc # "setup" => \A a \in Axes : lastStableOutput[a] \in 0 .. OUT_MAX

\* C19: the running sum of every axis is within 0..10230 in every state,
\* and so is its value between the subtraction and the addition of
\* getSmoothedAxis: nothing a 16-bit int cannot hold.
C19_SumRange ==
    \A a \in Axes :
        /\ axisSums[a] \in 0 .. filterWindowSize * ADC_MAX
        /\ sumAfterSub[a] \in 0 .. filterWindowSize * ADC_MAX

\* a full window of 1023: the sum at its maximum, 9 * 1023 in between
C19_Witness ==
    \E a \in LoopAxes :
        /\ reads[a] > 0
        /\ axisSums[a] = filterWindowSize * ADC_MAX
        /\ sumAfterSub[a] = (filterWindowSize - 1) * ADC_MAX

====
